---- MODULE Spec2Model ----
\* Model of src/src/main.rs: the start-up sequence of main(), the LED blink
\* loop, and the USBCTRL_IRQ interrupt handler (greeting, poll, read, display
\* mirror, case folding, write-back loop) with the four static registry slots.
EXTENDS Integers, Sequences, FiniteSets, TLC

\* ---------------------------------------------------------------- bounds
\* number of interrupt entries explored
MaxIrq == 2
\* longest packet the host sends in one read (at most BufSize)
MaxRead == 2
\* most bytes serial.write accepts in one call
MaxRoom == 2
\* failed write calls recorded per invocation (later ones only flip spin)
MaxErrLog == 1

\* ------------------------------------------------------ program constants
\* let mut buf = [0u8; 64]
BufSize == 64

\* b"Hello, World!\r\n"
HELLO == <<72, 101, 108, 108, 111, 44, 32, 87, 111, 114, 108, 100, 33, 13, 10>>

\* byte values the host may send: NUL, 'A', 'Z', '[', 'a', 0xC1
Bytes == {0, 65, 90, 91, 97, 193}

Slots == {"USB_BUS", "USB_SERIAL", "USB_DEVICE", "TERMINAL"}

VARIABLES
    mainPc,       \* position of the main line
    bootFailed,   \* a fallible start-up step has returned Err / None
    led,          \* led_pin level
    irqUnmasked,  \* NVIC mask bit of USBCTRL_IRQ
    slots,        \* slot -> TRUE when the static holds Some(..)
    slotWrites,   \* slot -> number of assignments to the static
    slotLog,      \* slot -> accesses seen: [ctx, kind, unmasked]
    irqPc,        \* position inside USBCTRL_IRQ ("idle" when not running)
    irqCount,     \* number of handler entries so far
    SAID_HELLO,   \* the AtomicBool
    buf,          \* the handler's stack buffer
    count,        \* Ok(count) of serial.read, 0 before
    wr_ptr,       \* remaining slice of the write-back loop
    inbound,      \* bytes the host delivered to this invocation's read
    trace,        \* calls made by the running invocation, in order
    spin,         \* parity of failed write calls beyond MaxErrLog
    helloWrites,  \* times HELLO was handed to serial.write, whole run
    helloIrqs,    \* invocation numbers in which that happened
    termAppends   \* terminal.write calls, whole run

vars == <<mainPc, bootFailed, led, irqUnmasked, slots, slotWrites, slotLog, irqPc, irqCount,
          SAID_HELLO, buf, count, wr_ptr, inbound, trace, spin,
          helloWrites, helloIrqs, termAppends>>

mainAll == <<mainPc, bootFailed, led, irqUnmasked, slots, slotWrites>>

\* ---------------------------------------------------------------- helpers
Min(a, b) == IF a <= b THEN a ELSE b

\* [0u8; 64]
Zeros == [i \in 1..BufSize |-> 0]

\* variant: the buffer is not initialised, it holds what the stack held
FreshBuf_stale(old) == old

\* let mut buf = [0u8; 64]: old is what the stack held before
FreshBuf(old) == Zeros

\* serial.read(&mut buf) returning Ok(Len(data)): data lands in buf[0..count]
ReadInto(b, data) == [i \in 1..BufSize |-> IF i <= Len(data) THEN data[i] ELSE b[i]]

\* variant: range test one too wide on both sides ('@'..'[')
is_ascii_uppercase_wide(b) == b >= 64 /\ b <= 91

\* u8::is_ascii_uppercase
is_ascii_uppercase(b) == b >= 65 /\ b <= 90

\* b | 0x20
BitOr32(b) == IF (b \div 32) % 2 = 1 THEN b ELSE b + 32

\* u8::make_ascii_lowercase: *b = *b | (is_ascii_uppercase as u8 * 0x20)
make_ascii_lowercase(b) == IF is_ascii_uppercase(b) THEN BitOr32(b) ELSE b

\* buf.iter_mut().take(count).for_each(|b| b.make_ascii_lowercase())
LowerBuf(b, n) ==
    [i \in 1..BufSize |-> IF i <= n THEN make_ascii_lowercase(b[i]) ELSE b[i]]

\* &buf[..count]
SliceTo(b, n) == SubSeq(b, 1, n)

\* variant: the slice restarts one byte too far
SliceFrom_skip(w, len) == SubSeq(w, len + 2, Len(w))

\* &wr_ptr[len..]
SliceFrom(w, len) == SubSeq(w, len + 1, Len(w))

\* results of serial.write(data): Err (-1), or Ok(k) with 1 <= k <= Len(data)
WriteOutcomes(data) == {-1} \cup (1..Min(MaxRoom, Len(data)))

Call(op, site, data, res) == [op |-> op, site |-> site, data |-> data, res |-> res]

IsEchoWrite(e) == e.op = "write" /\ e.site = "echo"

ErrsLogged(tr) == Len(SelectSeq(tr, LAMBDA e : IsEchoWrite(e) /\ e.res = -1))

Touch(log, s, ctx, kind) ==
    [log EXCEPT ![s] = @ \cup {[ctx |-> ctx, kind |-> kind, unmasked |-> irqUnmasked]}]

\* ------------------------------------------------------------------- Init
Init ==
    /\ mainPc = "take"
    /\ bootFailed = FALSE
    /\ led = FALSE
    /\ irqUnmasked = FALSE
    /\ slots = [s \in Slots |-> FALSE]
    /\ slotWrites = [s \in Slots |-> 0]
    /\ slotLog = [s \in Slots |-> {}]
    /\ irqPc = "idle"
    /\ irqCount = 0
    /\ SAID_HELLO = FALSE
    /\ buf = Zeros
    /\ count = 0
    /\ wr_ptr = <<>>
    /\ inbound = <<>>
    /\ trace = <<>>
    /\ spin = FALSE
    /\ helloWrites = 0
    /\ helloIrqs = {}
    /\ termAppends = 0

\* ------------------------------------------------------------- main line
\* The main line runs only while no handler invocation is in progress.
MainRuns(pc) == mainPc = pc /\ irqPc = "idle"

irqAll == <<irqPc, irqCount, SAID_HELLO, buf, count, wr_ptr, inbound, trace, spin,
            helloWrites, helloIrqs>>

\* variant: the result is dropped (let _ = ..) and start-up carries on
Fatal_ignore(pc, next) ==
    /\ MainRuns(pc)
    /\ \E ok \in BOOLEAN :
         /\ mainPc' = next
         /\ bootFailed' = (bootFailed \/ ~ok)
    /\ UNCHANGED <<led, irqUnmasked, slots, slotWrites, slotLog, termAppends>>
    /\ UNCHANGED irqAll

\* a fallible start-up step: unwrap() either continues or panics (panic_halt)
Fatal(pc, next) ==
    /\ MainRuns(pc)
    /\ \E ok \in BOOLEAN :
         /\ mainPc' = IF ok THEN next ELSE "halted"
         /\ bootFailed' = ~ok
    /\ UNCHANGED <<led, irqUnmasked, slots, slotWrites, slotLog, termAppends>>
    /\ UNCHANGED irqAll

\* assignment STATIC = Some(..)
Install(pc, slot, next) ==
    /\ MainRuns(pc)
    /\ slots' = [slots EXCEPT ![slot] = TRUE]
    /\ slotWrites' = [slotWrites EXCEPT ![slot] = @ + 1]
    /\ slotLog' = Touch(slotLog, slot, "main", "write")
    /\ mainPc' = next
    /\ UNCHANGED <<led, irqUnmasked, termAppends>>
    /\ UNCHANGED <<irqAll, bootFailed>>

\* pac::Peripherals::take().unwrap(); pac::CorePeripherals::take().unwrap()
TakePeripherals == Fatal("take", "clocks")

\* init_clocks_and_plls(..).ok().unwrap()
InitClocks == Fatal("clocks", "usb_bus")

\* USB_BUS = Some(usb_bus)
InstallUsbBus == Install("usb_bus", "USB_BUS", "bus_ref")

\* let bus_ref = USB_BUS.as_ref().unwrap()
BorrowBus ==
    /\ MainRuns("bus_ref")
    /\ mainPc' = IF slots["USB_BUS"] THEN "serial" ELSE "halted"
    /\ slotLog' = Touch(slotLog, "USB_BUS", "main", "read")
    /\ UNCHANGED <<led, irqUnmasked, slots, slotWrites, termAppends>>
    /\ UNCHANGED <<irqAll, bootFailed>>

\* USB_SERIAL = Some(SerialPort::new(bus_ref))
InstallSerial == Install("serial", "USB_SERIAL", "usb_dev")

\* USB_DEVICE = Some(UsbDeviceBuilder::new(bus_ref, ..).build())
InstallUsbDevice == Install("usb_dev", "USB_DEVICE", "screen_init")

\* screen.init(&mut delay).unwrap()
ScreenInit == Fatal("screen_init", "orientation")

\* screen.set_orientation(..).unwrap()
SetOrientation == Fatal("orientation", "clear")

\* screen.clear(Rgb565::BLACK).unwrap()
ClearScreen == Fatal("clear", "draw")

\* ferris_img.draw(&mut screen).unwrap()
DrawFerris == Fatal("draw", "terminal")

\* TerminalBuilder::new(..).build(); terminal.write(b"Hello, world!\n")
BuildTerminal ==
    /\ MainRuns("terminal")
    /\ termAppends' = termAppends + 1
    /\ mainPc' = "install_term"
    /\ UNCHANGED <<led, irqUnmasked, slots, slotWrites, slotLog>>
    /\ UNCHANGED <<irqAll, bootFailed>>

\* variant: the terminal is never put into its slot
InstallTerminal_skip ==
    /\ MainRuns("install_term")
    /\ mainPc' = "unmask"
    /\ UNCHANGED <<led, irqUnmasked, slots, slotWrites, slotLog, termAppends>>
    /\ UNCHANGED <<irqAll, bootFailed>>

\* TERMINAL = Some(terminal)
InstallTerminal == Install("install_term", "TERMINAL", "unmask")

\* pac::NVIC::unmask(Interrupt::USBCTRL_IRQ)
Unmask ==
    /\ MainRuns("unmask")
    /\ irqUnmasked' = TRUE
    /\ mainPc' = "led_init"
    /\ UNCHANGED <<led, slots, slotWrites, slotLog, termAppends>>
    /\ UNCHANGED <<irqAll, bootFailed>>

\* a step of the blink loop: touches led_pin and delay only
Blink(pc, level, next) ==
    /\ MainRuns(pc)
    /\ led' = level
    /\ mainPc' = next
    /\ UNCHANGED <<irqUnmasked, slots, slotWrites, slotLog, termAppends>>
    /\ UNCHANGED <<irqAll, bootFailed>>

\* let mut led_pin = pins.led.into_push_pull_output()
LedInit == Blink("led_init", led, "set_high")

\* variant: the blink loop also prints to the terminal
SetHigh_touch ==
    /\ MainRuns("set_high")
    /\ led' = TRUE
    /\ mainPc' = "delay_high"
    /\ slotLog' = Touch(slotLog, "TERMINAL", "main", "mut")
    /\ UNCHANGED <<irqUnmasked, slots, slotWrites, termAppends>>
    /\ UNCHANGED <<irqAll, bootFailed>>

\* led_pin.set_high().unwrap()
SetHigh == Blink("set_high", TRUE, "delay_high")

\* delay.delay_ms(500)
DelayHigh == Blink("delay_high", led, "set_low")

\* led_pin.set_low().unwrap()
SetLow == Blink("set_low", FALSE, "delay_low")

\* delay.delay_ms(500)
DelayLow == Blink("delay_low", led, "set_high")

MainStep ==
    \/ TakePeripherals \/ InitClocks \/ InstallUsbBus \/ BorrowBus
    \/ InstallSerial \/ InstallUsbDevice \/ ScreenInit \/ SetOrientation
    \/ ClearScreen \/ DrawFerris \/ BuildTerminal \/ InstallTerminal
    \/ Unmask \/ LedInit \/ SetHigh \/ DelayHigh \/ SetLow \/ DelayLow

\* ---------------------------------------------------------- USBCTRL_IRQ
\* sequences the host can deliver to one read: 0..MaxRead bytes
Packets == UNION {[1..n -> Bytes] : n \in 0..MaxRead}

\* the hardware raises the interrupt: only once unmasked, never nested
IrqEntry ==
    /\ irqUnmasked
    /\ irqPc = "idle"
    /\ irqCount < MaxIrq
    /\ irqPc' = "grab"
    /\ irqCount' = irqCount + 1
    /\ UNCHANGED <<SAID_HELLO, buf, count, wr_ptr, inbound, trace, spin,
                   helloWrites, helloIrqs, termAppends, slotLog>>
    /\ UNCHANGED mainAll

\* USB_DEVICE.as_mut().unwrap(); USB_SERIAL.as_mut().unwrap()
IrqGrab ==
    /\ irqPc = "grab"
    /\ irqPc' = IF slots["USB_DEVICE"] /\ slots["USB_SERIAL"] THEN "hello" ELSE "panic"
    /\ slotLog' = Touch(Touch(slotLog, "USB_DEVICE", "irq", "mut"),
                        "USB_SERIAL", "irq", "mut")
    /\ UNCHANGED <<irqCount, SAID_HELLO, buf, count, wr_ptr, inbound, trace,
                   spin, helloWrites, helloIrqs, termAppends>>
    /\ UNCHANGED mainAll

\* variant: the test of the flag is inverted
HelloGuard_inverted(said) == said

\* !SAID_HELLO.load(Ordering::Relaxed)
HelloGuard(said) == ~said

\* variant: the store is missing
HelloStore_forget(said) == said

\* SAID_HELLO.store(true, Ordering::Relaxed)
HelloStore(said) == TRUE

\* variant: the handler goes on to serial.read without polling the device
IrqHello_thenRead ==
    /\ irqPc = "hello"
    /\ IF HelloGuard(SAID_HELLO)
       THEN /\ SAID_HELLO' = HelloStore(SAID_HELLO)
            /\ \E res \in WriteOutcomes(HELLO) :
                 trace' = Append(trace, Call("write", "greeting", HELLO, res))
            /\ helloWrites' = helloWrites + 1
            /\ helloIrqs' = helloIrqs \cup {irqCount}
       ELSE UNCHANGED <<SAID_HELLO, trace, helloWrites, helloIrqs>>
    /\ irqPc' = "read"
    /\ UNCHANGED <<irqCount, buf, count, wr_ptr, inbound, spin, termAppends, slotLog>>
    /\ UNCHANGED mainAll

\* variant: the flag is stored only when the greeting write succeeded
IrqHello_retry ==
    /\ irqPc = "hello"
    /\ IF HelloGuard(SAID_HELLO)
       THEN /\ \E res \in WriteOutcomes(HELLO) :
                 /\ trace' = Append(trace, Call("write", "greeting", HELLO, res))
                 /\ SAID_HELLO' = (res > 0)
            /\ helloWrites' = helloWrites + 1
            /\ helloIrqs' = helloIrqs \cup {irqCount}
       ELSE UNCHANGED <<SAID_HELLO, trace, helloWrites, helloIrqs>>
    /\ irqPc' = "poll"
    /\ UNCHANGED <<irqCount, buf, count, wr_ptr, inbound, spin, termAppends, slotLog>>
    /\ UNCHANGED mainAll

\* if !SAID_HELLO.load() { SAID_HELLO.store(true); let _ = serial.write(HELLO); }
IrqHello ==
    /\ irqPc = "hello"
    /\ IF HelloGuard(SAID_HELLO)
       THEN /\ SAID_HELLO' = HelloStore(SAID_HELLO)
            /\ \E res \in WriteOutcomes(HELLO) :
                 trace' = Append(trace, Call("write", "greeting", HELLO, res))
            /\ helloWrites' = helloWrites + 1
            /\ helloIrqs' = helloIrqs \cup {irqCount}
       ELSE UNCHANGED <<SAID_HELLO, trace, helloWrites, helloIrqs>>
    /\ irqPc' = "poll"
    /\ UNCHANGED <<irqCount, buf, count, wr_ptr, inbound, spin, termAppends, slotLog>>
    /\ UNCHANGED mainAll

\* if usb_dev.poll(&mut [serial]) { let mut buf = [0u8; 64]; .. }
IrqPoll ==
    /\ irqPc = "poll"
    /\ \E active \in BOOLEAN :
         /\ trace' = Append(trace, Call("poll", "", <<>>, IF active THEN 1 ELSE 0))
         /\ irqPc' = IF active THEN "read" ELSE "done"
         /\ buf' = IF active THEN FreshBuf(buf) ELSE buf
    /\ slotLog' = Touch(Touch(Touch(slotLog, "USB_DEVICE", "irq", "mut"),
                              "USB_SERIAL", "irq", "mut"), "USB_BUS", "irq", "read")
    /\ UNCHANGED <<irqCount, SAID_HELLO, count, wr_ptr, inbound, spin,
                   helloWrites, helloIrqs, termAppends>>
    /\ UNCHANGED mainAll

\* variant: the Ok(0) arm is missing, a zero-byte read takes the Ok(count) arm
IrqRead_noZeroArm ==
    /\ irqPc = "read"
    /\ \/ /\ trace' = Append(trace, Call("read", "", <<>>, -1))
          /\ irqPc' = "done"
          /\ UNCHANGED <<buf, count, inbound>>
       \/ \E data \in Packets :
            /\ trace' = Append(trace, Call("read", "", data, Len(data)))
            /\ buf' = ReadInto(buf, data)
            /\ inbound' = data
            /\ count' = Len(data)
            /\ irqPc' = "term"
    /\ slotLog' = Touch(slotLog, "USB_SERIAL", "irq", "mut")
    /\ UNCHANGED <<irqCount, SAID_HELLO, wr_ptr, spin, helloWrites,
                   helloIrqs, termAppends>>
    /\ UNCHANGED mainAll

\* variant: the Err arm carries on to the display and the echo
IrqRead_errFalls ==
    /\ irqPc = "read"
    /\ \/ /\ trace' = Append(trace, Call("read", "", <<>>, -1))
          /\ irqPc' = "term"
          /\ UNCHANGED <<buf, count, inbound>>
       \/ \E data \in Packets :
            /\ trace' = Append(trace, Call("read", "", data, Len(data)))
            /\ buf' = ReadInto(buf, data)
            /\ inbound' = data
            /\ count' = Len(data)
            /\ irqPc' = IF Len(data) = 0 THEN "done" ELSE "term"
    /\ slotLog' = Touch(slotLog, "USB_SERIAL", "irq", "mut")
    /\ UNCHANGED <<irqCount, SAID_HELLO, wr_ptr, spin, helloWrites,
                   helloIrqs, termAppends>>
    /\ UNCHANGED mainAll

\* match serial.read(&mut buf) { Err(_e) => {}, Ok(0) => {}, Ok(count) => .. }
IrqRead ==
    /\ irqPc = "read"
    /\ \/ /\ trace' = Append(trace, Call("read", "", <<>>, -1))
          /\ irqPc' = "done"
          /\ UNCHANGED <<buf, count, inbound>>
       \/ \E data \in Packets :
            /\ trace' = Append(trace, Call("read", "", data, Len(data)))
            /\ buf' = ReadInto(buf, data)
            /\ inbound' = data
            /\ count' = Len(data)
            /\ irqPc' = IF Len(data) = 0 THEN "done" ELSE "term"
    /\ slotLog' = Touch(slotLog, "USB_SERIAL", "irq", "mut")
    /\ UNCHANGED <<irqCount, SAID_HELLO, wr_ptr, spin, helloWrites,
                   helloIrqs, termAppends>>
    /\ UNCHANGED mainAll

\* variant: the bytes are folded before they are shown
IrqTerm_lowered ==
    /\ irqPc = "term"
    /\ IF slots["TERMINAL"]
       THEN /\ trace' = Append(trace,
                    Call("term", "", SubSeq(LowerBuf(buf, count), 1, count), 0))
            /\ termAppends' = termAppends + 1
            /\ irqPc' = "lower"
       ELSE /\ irqPc' = "panic"
            /\ UNCHANGED <<trace, termAppends>>
    /\ slotLog' = Touch(slotLog, "TERMINAL", "irq", "mut")
    /\ UNCHANGED <<irqCount, SAID_HELLO, buf, count, wr_ptr, inbound, spin,
                   helloWrites, helloIrqs>>
    /\ UNCHANGED mainAll

\* variant: nothing is shown before the echo
IrqTerm_skip ==
    /\ irqPc = "term"
    /\ irqPc' = IF slots["TERMINAL"] THEN "lower" ELSE "panic"
    /\ slotLog' = Touch(slotLog, "TERMINAL", "irq", "mut")
    /\ UNCHANGED <<irqCount, SAID_HELLO, buf, count, wr_ptr, inbound, spin,
                   helloWrites, helloIrqs, trace, termAppends>>
    /\ UNCHANGED mainAll

\* let terminal = TERMINAL.as_mut().unwrap(); terminal.write(&buf[0..count])
IrqTerm ==
    /\ irqPc = "term"
    /\ IF slots["TERMINAL"]
       THEN /\ trace' = Append(trace, Call("term", "", SubSeq(buf, 1, count), 0))
            /\ termAppends' = termAppends + 1
            /\ irqPc' = "lower"
       ELSE /\ irqPc' = "panic"
            /\ UNCHANGED <<trace, termAppends>>
    /\ slotLog' = Touch(slotLog, "TERMINAL", "irq", "mut")
    /\ UNCHANGED <<irqCount, SAID_HELLO, buf, count, wr_ptr, inbound, spin,
                   helloWrites, helloIrqs>>
    /\ UNCHANGED mainAll

\* buf.iter_mut().take(count).for_each(..); let mut wr_ptr = &buf[..count]
IrqLower ==
    /\ irqPc = "lower"
    /\ buf' = LowerBuf(buf, count)
    /\ wr_ptr' = SliceTo(buf', count)
    /\ irqPc' = "wr_loop"
    /\ UNCHANGED <<irqCount, SAID_HELLO, count, inbound, trace, spin,
                   helloWrites, helloIrqs, termAppends, slotLog>>
    /\ UNCHANGED mainAll

\* while !wr_ptr.is_empty() {
\*     let _ = serial.write(wr_ptr).map(|len| { wr_ptr = &wr_ptr[len..]; });
\* }
IrqWrLoop ==
    /\ irqPc = "wr_loop"
    /\ IF wr_ptr = <<>>
       THEN /\ irqPc' = "done"
            /\ UNCHANGED <<wr_ptr, trace, spin, helloWrites, helloIrqs, slotLog>>
       ELSE /\ irqPc' = "wr_loop"
            /\ \E res \in WriteOutcomes(wr_ptr) :
                 LET logged == res > 0 \/ ErrsLogged(trace) < MaxErrLog IN
                 /\ wr_ptr' = IF res > 0 THEN SliceFrom(wr_ptr, res) ELSE wr_ptr
                 /\ trace' = IF logged
                             THEN Append(trace, Call("write", "echo", wr_ptr, res))
                             ELSE trace
                 /\ spin' = IF logged THEN spin ELSE ~spin
            /\ helloWrites' = helloWrites + (IF wr_ptr = HELLO THEN 1 ELSE 0)
            /\ helloIrqs' = IF wr_ptr = HELLO THEN helloIrqs \cup {irqCount}
                            ELSE helloIrqs
            /\ slotLog' = Touch(slotLog, "USB_SERIAL", "irq", "mut")
    /\ UNCHANGED <<irqCount, SAID_HELLO, buf, count, inbound, termAppends>>
    /\ UNCHANGED mainAll

\* variant: the flag is cleared on the way out
IrqReturn_clear ==
    /\ irqPc = "done"
    /\ irqPc' = "idle"
    /\ SAID_HELLO' = FALSE
    /\ UNCHANGED buf
    /\ count' = 0
    /\ wr_ptr' = <<>>
    /\ inbound' = <<>>
    /\ trace' = <<>>
    /\ spin' = FALSE
    /\ UNCHANGED <<irqCount, helloWrites, helloIrqs, termAppends, slotLog>>
    /\ UNCHANGED mainAll

\* the handler returns: its frame is popped, the stack memory that held buf
\* keeps its bytes
IrqReturn ==
    /\ irqPc = "done"
    /\ irqPc' = "idle"
    /\ UNCHANGED buf
    /\ count' = 0
    /\ wr_ptr' = <<>>
    /\ inbound' = <<>>
    /\ trace' = <<>>
    /\ spin' = FALSE
    /\ UNCHANGED <<irqCount, SAID_HELLO, helloWrites, helloIrqs,
                   termAppends, slotLog>>
    /\ UNCHANGED mainAll

IrqStep ==
    \/ IrqGrab \/ IrqHello \/ IrqPoll \/ IrqRead \/ IrqTerm \/ IrqLower
    \/ IrqWrLoop \/ IrqReturn

Next == MainStep \/ IrqEntry \/ IrqStep

Spec == Init /\ [][Next]_vars

\* The core executes: a running handler keeps stepping, and so does the main
\* line while no handler runs. Interrupt arrival is not fair.
FairSpec == Spec /\ WF_vars(IrqStep) /\ WF_vars(MainStep)

\* ------------------------------------------------------------ properties
\* the running invocation's serial.write calls of the write-back loop
EchoWrites == SelectSeq(trace, IsEchoWrite)

Has(tr, P(_)) == \E i \in 1..Len(tr) : P(tr[i])

IsPoll(e) == e.op = "poll"
IsRead(e) == e.op = "read"
IsTerm(e) == e.op = "term"
IsWrite(e) == e.op = "write"
IsGreeting(e) == e.op = "write" /\ e.site = "greeting"
IsErrEcho(e) == IsEchoWrite(e) /\ e.res = -1
IsPartialEcho(e) == IsEchoWrite(e) /\ e.res > 0 /\ e.res < Len(e.data)
IsOkEcho(e) == IsEchoWrite(e) /\ e.res > 0
IsPollIdle(e) == e.op = "poll" /\ e.res = 0
IsReadZero(e) == e.op = "read" /\ e.res = 0

RECURSIVE Accepted(_, _)
\* bytes accepted by the first n calls of ew
Accepted(ew, n) ==
    IF n = 0 THEN 0
    ELSE Accepted(ew, n - 1) + (IF ew[n].res > 0 THEN ew[n].res ELSE 0)

RECURSIVE Sent(_, _)
\* the accepted bytes of the first n calls of ew, in order
Sent(ew, n) ==
    IF n = 0 THEN <<>>
    ELSE Sent(ew, n - 1)
         \o (IF ew[n].res > 0 THEN SubSeq(ew[n].data, 1, ew[n].res) ELSE <<>>)

\* lower-case folding as the specification states it
Folded(b) == IF b \in 65..90 THEN b + 32 ELSE b

InLoop == irqPc \in {"wr_loop", "done"} /\ count > 0

\* C1: over the whole run the greeting is handed to serial.write at most
\* once, and only in the first handler invocation.
C1_HelloOnce == helloWrites <= 1 /\ helloIrqs \subseteq {1}

\* C1 witness: a second invocation has completed and the greeting count is 1.
C1_Witness == irqCount >= 2 /\ irqPc = "done" /\ helloWrites = 1

\* C2: once an echo-loop serial.write has returned an error, no further
\* echo-loop serial.write is issued in that invocation.
C2_WriteRetryStopsOnError ==
    \A i, j \in 1..Len(trace) :
        (i < j /\ IsErrEcho(trace[i])) => ~IsEchoWrite(trace[j])

\* C3: every handler invocation eventually returns.
C3_HandlerTerminates == (irqPc # "idle") ~> (irqPc = "idle")

\* C4: each echo-loop write is passed exactly the not-yet-accepted suffix of
\* the transformed buffer, the remaining slice starts right after the accepted
\* bytes, the accepted bytes are a prefix of the transformed buffer, and when
\* the loop has ended exactly count bytes have been accepted.
C4_PartialWriteDraining ==
    InLoop =>
        LET ew == EchoWrites
            T == SliceTo(buf, count)
            n == Len(ew) IN
        /\ \A i \in 1..n :
             /\ ew[i].data = SubSeq(T, Accepted(ew, i - 1) + 1, count)
             /\ ew[i].res > 0 => ew[i].res <= Len(ew[i].data)
        /\ wr_ptr = SubSeq(T, Accepted(ew, n) + 1, count)
        /\ Sent(ew, n) = SubSeq(T, 1, Accepted(ew, n))
        /\ irqPc = "done" => Accepted(ew, n) = count

\* C4 witness: a packet of at least two bytes was drained with a partial
\* write followed by a further successful write.
C4_Witness ==
    /\ irqPc = "done" /\ count >= 2
    /\ Has(trace, IsPartialEcho)
    /\ Len(SelectSeq(trace, IsOkEcho)) >= 2

\* C5: whenever the USB interrupt is unmasked all four slots hold Some, and
\* no unwrap in the handler fails.
C5_BootOrdering == (irqUnmasked => \A s \in Slots : slots[s]) /\ irqPc # "panic"

\* C5 witness: the handler has unwrapped USB_DEVICE, USB_SERIAL and TERMINAL.
C5_Witness == irqUnmasked /\ irqPc = "lower"

\* C6: every slot is assigned at most once, exactly once by the time the
\* interrupt is unmasked, and only by the main line; the main line touches no
\* slot after the unmask and the handler touches them only after it.
C6_SingleOwner ==
    \A s \in Slots :
        /\ slotWrites[s] <= 1
        /\ irqUnmasked => slotWrites[s] = 1
        /\ \A e \in slotLog[s] :
             /\ e.ctx = "main" => ~e.unmasked
             /\ e.ctx = "irq" => e.unmasked /\ e.kind # "write"

\* C6 witness: the handler preempted the blink loop between set_high and the
\* delay and used all four slots.
C6_Witness ==
    /\ mainPc = "delay_high" /\ irqPc = "done" /\ count > 0
    /\ \A s \in Slots : \E e \in slotLog[s] : e.ctx = "irq"

\* C7 as stated: every serial.read and serial.write of an invocation, the
\* greeting write included, comes after usb_dev.poll in that invocation.
C7_PollBeforeAllIO ==
    \A i \in 1..Len(trace) :
        (IsRead(trace[i]) \/ IsWrite(trace[i]))
            => \E j \in 1..(i - 1) : IsPoll(trace[j])

\* C7 amended: every serial.read and every echo-loop serial.write comes after
\* usb_dev.poll in the same invocation; the greeting write is the first call
\* of its invocation and comes before the poll.
C7_PollBeforeEchoIO ==
    \A i \in 1..Len(trace) :
        /\ (IsRead(trace[i]) \/ IsEchoWrite(trace[i]))
              => \E j \in 1..(i - 1) : IsPoll(trace[j])
        /\ IsGreeting(trace[i]) => i = 1

\* C7 witness: the first invocation wrote the greeting, polled, read a packet
\* and echoed it.
C7_Witness ==
    /\ irqPc = "done" /\ irqCount = 1
    /\ Has(trace, IsGreeting) /\ Has(trace, IsOkEcho)

\* C8 as stated: an invocation whose poll reports no activity, or whose read
\* returns zero bytes, makes no display append and no serial write at all.
C8_ZeroReadNoWriteAtAll ==
    (Has(trace, IsPollIdle) \/ Has(trace, IsReadZero))
        => ~Has(trace, IsTerm) /\ ~Has(trace, IsWrite)

\* C8 amended: such an invocation makes no display append and no echo write;
\* its only possible serial write is the greeting, in the first invocation.
C8_ZeroReadNoEcho ==
    (Has(trace, IsPollIdle) \/ Has(trace, IsReadZero))
        => /\ ~Has(trace, IsTerm)
           /\ \A i \in 1..Len(trace) :
                IsWrite(trace[i])
                    => IsGreeting(trace[i]) /\ trace[i].data = HELLO /\ irqCount = 1
           /\ wr_ptr = <<>>

\* C8 witness: the first invocation wrote the greeting and its read returned
\* zero bytes.
C8_Witness ==
    irqPc = "done" /\ Has(trace, IsReadZero) /\ Has(trace, IsGreeting)

C10_UppercaseEcho ==
    InLoop =>
        \A i \in 1..Len(trace) :
            IsEchoWrite(trace[i]) =>
                LET d == trace[i].data
                    off == count - Len(d) IN
                \A k \in 1..Len(d) :
                    inbound[off + k] \in 97..122 => d[k] = inbound[off + k] - 32

IsReadErr(e) == e.op = "read" /\ e.res = -1
IsGreetingErr(e) == IsGreeting(e) /\ e.res = -1

\* position of a call in the order of section 4.3
Rank(e) ==
    CASE IsGreeting(e) -> 1
      [] IsPoll(e) -> 2
      [] IsRead(e) -> 3
      [] IsTerm(e) -> 4
      [] OTHER -> 5

\* C11: once a read of count > 0 bytes has been shown, the invocation has made
\* exactly one terminal.write and its argument is the inbound bytes as read;
\* before that, and in any other invocation, it has made none.
C11_Mirroring ==
    IF irqPc \in {"lower", "wr_loop", "done"} /\ count > 0
    THEN SelectSeq(trace, IsTerm) = <<Call("term", "", inbound, 0)>>
    ELSE ~Has(trace, IsTerm)

\* C11 witness: a packet holding 'A' was shown and then echoed.
C11_Witness ==
    /\ irqPc = "done" /\ Has(trace, IsOkEcho)
    /\ \E i \in 1..Len(inbound) : inbound[i] = 65

\* C12: when the greeting write fails the flag is true all the same and the
\* first invocation goes on to poll, read and echo; no invocation after the
\* first writes the greeting.
C12_GreetingNotRetried ==
    /\ Has(trace, IsGreetingErr) =>
         /\ SAID_HELLO /\ irqCount = 1
         /\ irqPc \in {"poll", "read", "term", "lower", "wr_loop", "done"}
    /\ irqCount >= 2 => SAID_HELLO /\ helloWrites = 1 /\ ~Has(trace, IsGreeting)

\* C12 witness: the greeting write failed and the same invocation echoed a
\* packet.
C12_Witness ==
    irqPc = "done" /\ Has(trace, IsGreetingErr) /\ Has(trace, IsOkEcho)

\* C13: once the interrupt is unmasked the LED is switched on and switched off
\* again and again.
C13_BackgroundProgress == [](irqUnmasked => (<>led /\ <>(~led)))

\* C14: the calls of one invocation come in the order greeting, poll, read,
\* terminal.write, echo writes, each of the first four at most once; the
\* display has the untransformed bytes before the buffer is folded and before
\* the first echo write, whatever the echo writes return.
C14_StepOrder ==
    /\ \A i, j \in 1..Len(trace) :
         i < j => /\ Rank(trace[i]) <= Rank(trace[j])
                  /\ Rank(trace[i]) = Rank(trace[j]) => Rank(trace[i]) = 5
    /\ irqPc = "lower" =>
         Has(trace, IsTerm) /\ ~Has(trace, IsEchoWrite) /\ SliceTo(buf, count) = inbound
    /\ irqPc = "wr_loop" => Has(trace, IsTerm)
    /\ Has(trace, IsEchoWrite) =>
         Has(trace, IsPoll) /\ Has(trace, IsRead) /\ Has(trace, IsTerm)

\* C14 witness: the first invocation made all five kinds of call and an echo
\* write failed after the display append.
C14_Witness ==
    /\ irqCount = 1 /\ irqPc = "done"
    /\ Has(trace, IsGreeting) /\ Has(trace, IsTerm) /\ Has(trace, IsErrEcho)

\* C15: after a read error the invocation is at its end with no display append
\* and no echo write, and the buffer, count and slice untouched; the failing
\* read and the return change neither the flag, the slots nor the display.
C15_ReadErrorDiscarded ==
    /\ [](Has(trace, IsReadErr) =>
            /\ irqPc = "done"
            /\ ~Has(trace, IsTerm) /\ ~Has(trace, IsEchoWrite)
            /\ buf = Zeros /\ count = 0 /\ wr_ptr = <<>>)
    /\ [][(Has(trace, IsReadErr) \/ Has(trace', IsReadErr)) =>
            UNCHANGED <<SAID_HELLO, slots, termAppends, helloWrites, buf, mainAll>>]_vars

\* C15 witness: serial.read returned an error in the second invocation.
C15_Witness == irqPc = "done" /\ irqCount = 2 /\ Has(trace, IsReadErr)

\* C16: the buffer handed to serial.read is all zero whatever earlier
\* invocations left on the stack, after the read it holds nothing but the
\* count bytes read, and every slice shown or offered for echo lies within
\* those count bytes and holds, byte for byte, the inbound byte or its folding.
C16_NoLeakage ==
    /\ irqPc = "read" => buf = Zeros
    /\ (irqPc \in {"term", "lower", "wr_loop"} \/ (irqPc = "done" /\ count > 0)) =>
         \A i \in (count + 1)..BufSize : buf[i] = 0
    /\ \A i \in 1..Len(trace) :
         (IsTerm(trace[i]) \/ IsEchoWrite(trace[i])) =>
            LET d == trace[i].data
                off == Len(inbound) - Len(d) IN
            /\ off >= 0
            /\ \A k \in 1..Len(d) :
                 d[k] \in {inbound[off + k], Folded(inbound[off + k])}

\* C16 witness: a one-byte packet was handled by an invocation that came after
\* another packet-carrying invocation.
C16_Witness ==
    /\ irqCount = 2 /\ termAppends = 3 /\ irqPc = "done"
    /\ count = 1 /\ Has(trace, IsOkEcho)

\* C17: the flag is false before the first invocation's greeting step and true
\* ever after; it never goes back to false, only the first invocation changes
\* it, and no handler step changes main-line state or the slots.
C17_FlagMonotonic ==
    /\ [](SAID_HELLO <=> (irqCount >= 2 \/ (irqCount = 1 /\ irqPc \notin {"grab", "hello"})))
    /\ [][SAID_HELLO => SAID_HELLO']_vars
    /\ [][SAID_HELLO' # SAID_HELLO => irqCount = 1 /\ irqPc = "hello"]_vars
    /\ [][irqPc # "idle" => UNCHANGED mainAll]_vars

\* C17 witness: a second invocation has run and the flag is still true.
C17_Witness == irqCount = 2 /\ irqPc = "done" /\ SAID_HELLO /\ Has(trace, IsOkEcho)

\* C18: once a fallible start-up step has failed the main line is halted, the
\* interrupt is masked and no handler invocation has started or runs.
C18_BootAbort ==
    bootFailed =>
        mainPc = "halted" /\ ~irqUnmasked /\ irqCount = 0 /\ irqPc = "idle"

\* C18 witness: display bring-up failed after the USB slots were installed.
C18_Witness == bootFailed /\ mainPc = "halted" /\ slots["USB_DEVICE"]

\* C19: in the first invocation the greeting write is the first call, before
\* poll and read and whatever poll returns; an echo write is only ever made
\* when the greeting has been attempted before.
C19_GreetingPrecedesEcho ==
    /\ (irqCount = 1 /\ irqPc \notin {"idle", "grab", "hello"}) =>
         Len(trace) >= 1 /\ IsGreeting(trace[1])
    /\ \A i \in 1..Len(trace) :
         (irqCount = 1 /\ (IsPoll(trace[i]) \/ IsRead(trace[i]))) => i > 1
    /\ Has(trace, IsEchoWrite) => helloWrites >= 1

\* C19 witness: the first invocation wrote the greeting although poll then
\* reported no activity.
C19_Witness ==
    /\ irqCount = 1 /\ irqPc = "done"
    /\ IsGreeting(trace[1]) /\ Has(trace, IsPollIdle)

====
